---- MODULE Spec2Model ----
(***************************************************************************)
(* screenlaunch.py: launching services in detached screen sessions and     *)
(* replacing a running session by killing its process tree.                *)
(*                                                                         *)
(* The model follows one call of main(module_name) or of                   *)
(* terminate(module_name) statement by statement.  The operating system    *)
(* is the environment: the process table (ps) and the session listing      *)
(* (screen -ls) are read afresh by every query, processes may exit at any  *)
(* time (by themselves or because of a signal, or never), and a session    *)
(* ends by itself once its root process has no child left.                 *)
(***************************************************************************)
EXTENDS Integers, Sequences, FiniteSets, TLC

(***************************************************************************)
(* Bounds of the model                                                     *)
(***************************************************************************)
\* number of children the service process may have in the initial table
MaxKids == 2
\* os.system commands after which main is not called again (sequences of calls)
MaxCmds == 2

(***************************************************************************)
(* Values                                                                  *)
(***************************************************************************)
\* Python's None for a pid
None == -1

\* pids of the fabricated process tree: session root, shell, service
RootPid == 1
ShellPid == 2
ServicePid == 3
\* root pid of a second session that carries the same name; its process tree
\* is not part of the table
OtherRootPid == 90
\* pids of the first session that main creates: root, shell, service and a
\* child of the service; further sessions follow in blocks of BlockSize pids
NewRootPid == 100
BlockSize == 4

\* the signal descriptors (the name that is printed stands for the signal)
SIGINT == "-INT"
SIGTERM == "-TERM"
SIGKILL == "-KILL"

\* the module table of the source: cleanup "default" is the absent key
MODULES ==
    [n \in {"airflow_scheduler", "airflow_webserver", "jupyter", "mongo", "webservices"} |->
        CASE n = "airflow_scheduler" -> [virtual_env |-> "ds", command |-> "airflow scheduler", cleanup |-> "default"]
          [] n = "airflow_webserver" -> [virtual_env |-> "ds", command |-> "airflow webserver", cleanup |-> "first_child"]
          [] n = "jupyter" -> [virtual_env |-> "ds", command |-> "jupyter notebook", cleanup |-> "default"]
          [] n = "mongo" -> [virtual_env |-> "None", command |-> "mongo_start.sh", cleanup |-> "default"]
          [] n = "webservices" -> [virtual_env |-> "ds", command |-> "uwsgi -C666 -s /tmp/uwsgi.sock -w lof_webserver:app", cleanup |-> "default"]]

\* module descriptors of the fabricated catalogs of the testable properties:
\* "svc" has no cleanup hook, the hook of "multi" returns every child of the
\* service in table order
TestModules ==
    [n \in {"svc", "multi"} |->
        CASE n = "svc" -> [virtual_env |-> "None", command |-> "svc", cleanup |-> "default"]
          [] n = "multi" -> [virtual_env |-> "None", command |-> "multi", cleanup |-> "children"]]

\* the catalog the program runs with
Catalog == [n \in (DOMAIN MODULES) \cup (DOMAIN TestModules) |->
               IF n \in DOMAIN MODULES THEN MODULES[n] ELSE TestModules[n]]

\* module names given to main and terminate; "nosuch" is in no catalog
InputNames == {"airflow_webserver", "mongo", "svc", "multi", "nosuch"}

\* answers typed at the prompt
Answers == {"", "Y", "yes", "n", "NO"}

\* str.lower() on the answers
lower(s) == CASE s = "Y" -> "y"
              [] s = "NO" -> "no"
              [] OTHER -> s

(***************************************************************************)
(* Floating point: wait_killed counts its budget down in IEEE doubles.     *)
(* A double d with |d| < 4 that is a multiple of 2^-55 is held as the      *)
(* integer d * 2^55 in two limbs: hi * 2^28 + lo, 0 <= lo < 2^28.          *)
(***************************************************************************)
Limb == 268435456

\* 0.1 = 0x1.999999999999ap-4 = 3602879701896397 * 2^-55
STEP == [hi |-> 13421772, lo |-> 214748365]
\* 2.0 and 0.5, the budgets terminate_loop passes to wait_killed
MAXWAIT_TERM == [hi |-> 268435456, lo |-> 0]
MAXWAIT_KILL == [hi |-> 67108864, lo |-> 0]

\* spacing of the doubles around hi * 2^28, in units of 2^-55
\* (53 significant bits: exact below 2^53)
Granularity(hi) ==
    IF hi < 33554432 THEN 1
    ELSE IF hi < 67108864 THEN 2
    ELSE IF hi < 134217728 THEN 4
    ELSE IF hi < 268435456 THEN 8
    ELSE 16

\* round to nearest double, ties to even (negative values here are small and exact)
RoundDouble(hi, lo) ==
    IF hi < 0 THEN [hi |-> hi, lo |-> lo]
    ELSE LET g == Granularity(hi)
             q == lo \div g
             r == lo % g
             up == (2 * r > g) \/ (2 * r = g /\ q % 2 = 1)
             lo2 == (q + (IF up THEN 1 ELSE 0)) * g
         IN  IF lo2 = Limb THEN [hi |-> hi + 1, lo |-> 0]
             ELSE [hi |-> hi, lo |-> lo2]

\* a - b in double arithmetic
FloatSub(a, b) ==
    IF a.lo - b.lo < 0
    THEN RoundDouble(a.hi - b.hi - 1, a.lo - b.lo + Limb)
    ELSE RoundDouble(a.hi - b.hi, a.lo - b.lo)

\* a > 0.
FloatPositive(a) == a.hi > 0 \/ (a.hi = 0 /\ a.lo > 0)

(***************************************************************************)
(* The process table and the session listing                               *)
(***************************************************************************)
\* elements of a sequence
Range(s) == {s[i] : i \in 1..Len(s)}

\* the rows of s that are in keep, in order
RECURSIVE FilterRows(_, _)
FilterRows(s, keep) ==
    IF s = <<>> THEN <<>>
    ELSE IF Head(s) \in keep THEN <<Head(s)>> \o FilterRows(Tail(s), keep)
    ELSE FilterRows(Tail(s), keep)

\* get_child_pid(pid) on the table: the children of pid in table order
RECURSIVE get_child_pid(_, _)
get_child_pid(p, table) ==
    IF table = <<>> THEN <<>>
    ELSE IF Head(table)[1] = p THEN <<Head(table)[2]>> \o get_child_pid(p, Tail(table))
    ELSE get_child_pid(p, Tail(table))

\* check_running_pid that looks at both columns of the table
check_running_pid_AnyColumn(p, table) ==
    \E i \in 1..Len(table) : table[i][1] = p \/ table[i][2] = p

\* check_running_pid(pid) on the table: pid occurs as a child id
check_running_pid(p, table) == \E i \in 1..Len(table) : table[i][2] = p

\* the first n elements of a list: list[:n]
Slice(s, n) == IF Len(s) <= n THEN s ELSE SubSeq(s, 1, n)

\* the cleanup hook of a descriptor applied to the service pid
Cleanup(kind, x, table) ==
    CASE kind = "first_child" -> Slice(get_child_pid(x, table), 1)
      [] kind = "children" -> get_child_pid(x, table)
      [] OTHER -> <<>>

\* the table after process p has exited: its row is gone and its children
\* belong to init (pid 0)
RECURSIVE Reap(_, _)
Reap(p, table) ==
    IF table = <<>> THEN <<>>
    ELSE IF Head(table)[2] = p THEN Reap(p, Tail(table))
    ELSE IF Head(table)[1] = p THEN <<(<<0, Head(table)[2]>>)>> \o Reap(p, Tail(table))
    ELSE <<Head(table)>> \o Reap(p, Tail(table))

\* the decimal text of a pid, as screen -ls prints it: a sequence of digits
DigitChar(d) == CASE d = 0 -> "0" [] d = 1 -> "1" [] d = 2 -> "2" [] d = 3 -> "3"
                  [] d = 4 -> "4" [] d = 5 -> "5" [] d = 6 -> "6" [] d = 7 -> "7"
                  [] d = 8 -> "8" [] d = 9 -> "9"

RECURSIVE str(_)
str(n) == IF n < 10 THEN <<DigitChar(n)>> ELSE Append(str(n \div 10), DigitChar(n % 10))

\* int(x) of a text the pattern (\d+) matched
DigitValue(c) == CHOOSE d \in 0..9 : DigitChar(d) = c

RECURSIVE int(_)
int(x) == IF Len(x) = 1 THEN DigitValue(x[1])
          ELSE 10 * int(SubSeq(x, 1, Len(x) - 1)) + DigitValue(x[Len(x)])

\* position of x in the sequence s, 0 if absent
IndexOf(x, s) == IF \E i \in 1..Len(s) : s[i] = x
                 THEN CHOOSE i \in 1..Len(s) : s[i] = x
                 ELSE 0

\* get_screen_sessions(): {name: pid text}.  The listing is the set of
\* (pid text, name) matches; of several sessions with one name the one iterated
\* last wins, and the iteration order of the set is fixed for the run by the
\* hash seed: ord lists the root pids in iteration order.
get_screen_sessions(lst, ord) ==
    [n \in {s[2] : s \in lst} |->
        CHOOSE x \in {s[1] : s \in {t \in lst : t[2] = n}} :
            \A s \in {t \in lst : t[2] = n} :
                IndexOf(int(s[1]), ord) <= IndexOf(int(x), ord)]

\* get_pid that does not compare the name: the root pid of any listed session
get_pid_AnyName(name, lst, ord) ==
    IF lst # {}
    THEN int(get_screen_sessions(lst, ord)[CHOOSE n \in DOMAIN get_screen_sessions(lst, ord) : TRUE])
    ELSE None

\* get_pid(module_name)
get_pid(name, lst, ord) ==
    IF name \in DOMAIN get_screen_sessions(lst, ord)
    THEN int(get_screen_sessions(lst, ord)[name])
    ELSE None

\* check_screen_pid(pid)
check_screen_pid(p, lst, ord) ==
    p \in {int(get_screen_sessions(lst, ord)[n]) : n \in DOMAIN get_screen_sessions(lst, ord)}

(***************************************************************************)
(* State                                                                   *)
(***************************************************************************)
VARIABLES
    procs,          \* the process table: sequence of <<parent, child>> rows
    sessions,       \* the session listing: set of <<text of the root pid, name>>
    order,          \* iteration order of the listing's set (hash seed)
    table0,         \* the process table the run started with
    sessions0,      \* the session listing the run started with
    pc,             \* statement the program is at
    entry,          \* function called from outside: "main" or "terminate"
    module_name,    \* the argument
    m_pid,          \* main: pid
    answer,         \* main: what input() returned
    pid,            \* terminate: pid
    bash_pid,       \* terminate: bash_pid
    main_pid,       \* terminate: main_pid
    cleanup_pids,   \* terminate: cleanup_pids
    ci,             \* terminate: elements of cleanup_pids the for loop has taken
    target,         \* terminate_loop: pid
    role,           \* which call of terminate_loop: "main", "cleanup", "bash"
    ntry,           \* terminate_loop: rounds finished; 3 is the SIGKILL round
    maxwait,        \* wait_killed: maxwait
    remain,         \* wait_killed: remain
    loop_ret,       \* value terminate_loop returned
    result,         \* value terminate returned
    raised,         \* exception that left the called function
    sent,           \* signals of the running ladder: <<signal, pid, delivered>>
    wpolls,         \* polls of the running wait_killed call
    wsleeps,        \* sleeps of the running wait_killed call
    lpolls,         \* polls of the running ladder
    absent,         \* a poll of the running ladder saw the pid absent
    ladders,        \* finished ladders: [pid, role, ok]
    diedAt,         \* wait_killed called directly: sleeps done when its pid exited
    hooks,          \* calls of a cleanup hook
    cmds,           \* os.system commands: [cmd, name]
    listing,        \* the listing check_screen_pid read
    msgs            \* messages written

vars == <<procs, sessions, order, table0, sessions0, pc, entry, module_name, m_pid, answer,
          pid, bash_pid, main_pid, cleanup_pids, ci, target, role, ntry, remain,
          loop_ret, result, raised, sent, wpolls, wsleeps, lpolls, absent, ladders,
          hooks, cmds, listing, msgs, maxwait, diedAt>>

osVars == <<procs, sessions, order>>
initVars == <<table0, sessions0>>
mainVars == <<m_pid, answer>>
termVars == <<pid, bash_pid, main_pid, cleanup_pids, ci>>
loopVars == <<target, role, ntry, maxwait, remain, loop_ret>>
ghostVars == <<sent, wpolls, wsleeps, lpolls, absent, ladders, diedAt>>

\* the fabricated process tree: root -> shell -> service -> children
MasterTable ==
    <<(<<RootPid, ShellPid>>), (<<ShellPid, ServicePid>>)>>
    \o [k \in 1..MaxKids |-> <<ServicePid, ServicePid + k>>]

\* the tables the run may start with: the rows of the tree that exist
InitTables == {FilterRows(MasterTable, keep) : keep \in SUBSET Range(MasterTable)}

\* the listings the run may start with: no session, or sessions of one name
InitListings ==
    {{}} \cup {l \in UNION {SUBSET {<<str(RootPid), n>>, <<str(OtherRootPid), n>>} : n \in InputNames} : l # {}}

Init ==
    /\ procs \in InitTables
    /\ sessions \in InitListings
    /\ order \in IF Cardinality(sessions) > 1
                 THEN {<<RootPid, OtherRootPid>>, <<OtherRootPid, RootPid>>}
                 ELSE {<<RootPid, OtherRootPid>>}
    /\ table0 = procs
    /\ sessions0 = sessions
    /\ pc = "idle"
    /\ entry = "none"
    /\ module_name = "none"
    /\ m_pid = None
    /\ answer = "none"
    /\ pid = None
    /\ bash_pid = None
    /\ main_pid = None
    /\ cleanup_pids = <<>>
    /\ ci = 0
    /\ target = None
    /\ role = "none"
    /\ ntry = 0
    /\ maxwait = [hi |-> 0, lo |-> 0]
    /\ remain = [hi |-> 0, lo |-> 0]
    /\ loop_ret = "none"
    /\ result = "none"
    /\ raised = "none"
    /\ sent = <<>>
    /\ wpolls = 0
    /\ wsleeps = 0
    /\ lpolls = 0
    /\ absent = FALSE
    /\ ladders = <<>>
    /\ diedAt = None
    /\ hooks = 0
    /\ cmds = <<>>
    /\ listing = {}
    /\ msgs = <<>>


(***************************************************************************)
(* Helpers of the actions                                                  *)
(***************************************************************************)
\* terminate_attempt without the except clause: ProcessLookupError leaves it
terminate_attempt_NoCatch(p, killsignal, table) ==
    [signal |-> killsignal, pid |-> p, delivered |-> check_running_pid(p, table),
     raised |-> IF check_running_pid(p, table) THEN "none" ELSE "ProcessLookupError"]

\* terminate_attempt(pid, killsignal): the signal is printed and sent; a pid
\* that does not exist makes os.kill raise ProcessLookupError, which is passed over
terminate_attempt(p, killsignal, table) ==
    [signal |-> killsignal, pid |-> p, delivered |-> check_running_pid(p, table),
     raised |-> "none"]

\* the signal of the round: three rounds of SIGTERM, then SIGKILL
RoundSignal(n) == IF n < 3 THEN SIGTERM ELSE SIGKILL

\* the budget of the round's wait_killed call
RoundMaxWait(n) == IF n < 3 THEN MAXWAIT_TERM ELSE MAXWAIT_KILL

\* StartLoop that runs the last ladder on the session's root instead of the shell
StartLoop_Root(p, r) ==
    /\ target' = IF r = "bash" THEN pid ELSE p
    /\ role' = r
    /\ ntry' = 0
    /\ loop_ret' = "none"
    /\ sent' = <<>>
    /\ wpolls' = 0
    /\ wsleeps' = 0
    /\ lpolls' = 0
    /\ absent' = FALSE
    /\ pc' = "l_attempt"
    /\ UNCHANGED <<maxwait, remain, ladders, diedAt>>

\* terminate calls terminate_loop(p)
StartLoop(p, r) ==
    /\ target' = p
    /\ role' = r
    /\ ntry' = 0
    /\ loop_ret' = "none"
    /\ sent' = <<>>
    /\ wpolls' = 0
    /\ wsleeps' = 0
    /\ lpolls' = 0
    /\ absent' = FALSE
    /\ pc' = "l_attempt"
    /\ UNCHANGED <<maxwait, remain, ladders, diedAt>>

\* the pids of the k-th block of a created session
Block(k) == {NewRootPid + BlockSize * k + i : i \in 0..(BlockSize - 1)}

\* pid q belongs to a process of the table or to the root of a listed session
InUse(q, table, lst) == check_running_pid(q, table) \/ \E s \in lst : int(s[1]) = q

\* the root pid the operating system gives to the next session: the first
\* block of which no pid is in use
FreshRoot(table, lst) ==
    LET k == CHOOSE i \in 0..(MaxCmds + 2) :
                 /\ \A q \in Block(i) : ~InUse(q, table, lst)
                 /\ \A j \in 0..(i - 1) : \E q \in Block(j) : InUse(q, table, lst)
    IN  NewRootPid + BlockSize * k

\* the sequence without the element x
Without(seq, x) == SelectSeq(seq, LAMBDA y : y # x)

\* the command line main builds
LaunchCall(name) ==
    <<"screen -S", name, "-dm bash --norc -c">>
    \o (IF Catalog[name].virtual_env # "None"
        THEN <<"source activate", Catalog[name].virtual_env>> ELSE <<>>)
    \o <<Catalog[name].command, "read -p">>

(***************************************************************************)
(* main                                                                    *)
(***************************************************************************)
\* main(module_name), lines 191-195: look the module up, fail() if unknown
CallMain(name) ==
    /\ pc = "idle"
    /\ entry' = "main"
    /\ module_name' = name
    /\ IF name \in DOMAIN Catalog
       THEN /\ pc' = "m_get_pid"
            /\ UNCHANGED msgs
       ELSE /\ pc' = "done"
            /\ msgs' = Append(msgs, "possible arguments")
    /\ UNCHANGED <<osVars, initVars, mainVars, termVars, loopVars, ghostVars,
                   result, raised, hooks, cmds, listing>>

\* MainGetPid without the prompt: an existing session is not looked at
MainGetPid_NoPrompt ==
    /\ pc = "m_get_pid"
    /\ m_pid' = get_pid(module_name, sessions, order)
    /\ pc' = "m_call"
    /\ UNCHANGED <<osVars, initVars, entry, module_name, answer, termVars, loopVars,
                   ghostVars, result, raised, hooks, cmds, listing, msgs>>

\* lines 196-198: pid = get_pid(module_name)
MainGetPid ==
    /\ pc = "m_get_pid"
    /\ m_pid' = get_pid(module_name, sessions, order)
    /\ IF m_pid' # None
       THEN /\ msgs' = Append(msgs, "already active")
            /\ pc' = "m_input"
       ELSE /\ pc' = "m_call"
            /\ UNCHANGED msgs
    /\ UNCHANGED <<osVars, initVars, entry, module_name, answer, termVars, loopVars,
                   ghostVars, result, raised, hooks, cmds, listing>>

\* MainInput without the else branch: after any other answer main goes on
MainInput_NoElse(a) ==
    /\ pc = "m_input"
    /\ answer' = a
    /\ pc' = IF lower(a) \in {"", "y", "yes"} THEN "t_get_pid" ELSE "m_call"
    /\ UNCHANGED <<osVars, initVars, entry, module_name, m_pid, termVars, loopVars,
                   ghostVars, result, raised, hooks, cmds, listing, msgs>>

\* lines 199-204: the prompt; on '', 'y', 'yes' terminate is called
MainInput(a) ==
    /\ pc = "m_input"
    /\ answer' = a
    /\ pc' = IF lower(a) \in {"", "y", "yes"} THEN "t_get_pid" ELSE "done"
    /\ UNCHANGED <<osVars, initVars, entry, module_name, m_pid, termVars, loopVars,
                   ghostVars, result, raised, hooks, cmds, listing, msgs>>

\* MainAfterTerminate without the return: the message is written and main goes on
MainAfterTerminate_NoReturn ==
    /\ pc = "t_return"
    /\ entry = "main"
    /\ msgs' = IF result = "False" THEN Append(msgs, "terminating failed!") ELSE msgs
    /\ pc' = "m_call"
    /\ UNCHANGED <<osVars, initVars, entry, module_name, mainVars, termVars, loopVars,
                   ghostVars, result, raised, hooks, cmds, listing>>

\* lines 200-202: terminate has returned to main
MainAfterTerminate ==
    /\ pc = "t_return"
    /\ entry = "main"
    /\ IF result = "False"
       THEN /\ msgs' = Append(msgs, "terminating failed!")
            /\ pc' = "done"
       ELSE /\ pc' = "m_call"
            /\ UNCHANGED msgs
    /\ UNCHANGED <<osVars, initVars, entry, module_name, mainVars, termVars, loopVars,
                   ghostVars, result, raised, hooks, cmds, listing>>

\* lines 205-211: build the command line and start the detached session: a
\* root, its shell and the service, which may have forked a child already
MainCall ==
    /\ pc = "m_call"
    /\ msgs' = Append(msgs, "call")
    /\ cmds' = Append(cmds, [cmd |-> "create", name |-> module_name,
                             call |-> LaunchCall(module_name)])
    /\ LET r == FreshRoot(procs, sessions)
       IN  /\ sessions' = sessions \cup {<<str(r), module_name>>}
           /\ \E forked \in BOOLEAN :
                  procs' = procs \o <<(<<r, r + 1>>), (<<r + 1, r + 2>>)>>
                                 \o (IF forked THEN <<(<<r + 2, r + 3>>)>> ELSE <<>>)
           /\ order' \in {Append(Without(order, r), r), <<r>> \o Without(order, r)}
    /\ pc' = "done"
    /\ UNCHANGED <<initVars, entry, module_name, mainVars, termVars, loopVars,
                   ghostVars, result, raised, hooks, listing>>

(***************************************************************************)
(* terminate                                                               *)
(***************************************************************************)
\* terminate(module_name) called directly
CallTerminate(name) ==
    /\ pc = "idle"
    /\ entry' = "terminate"
    /\ module_name' = name
    /\ pc' = "t_get_pid"
    /\ UNCHANGED <<osVars, initVars, mainVars, termVars, loopVars, ghostVars,
                   result, raised, hooks, cmds, listing, msgs>>

\* line 138: pid = get_pid(module_name)
TermGetPid ==
    /\ pc = "t_get_pid"
    /\ pid' = get_pid(module_name, sessions, order)
    /\ pc' = "t_bash"
    /\ UNCHANGED <<osVars, initVars, entry, module_name, mainVars, bash_pid, main_pid,
                   cleanup_pids, ci, loopVars, ghostVars, result, raised, hooks, cmds,
                   listing, msgs>>

\* TermGetBash without the except clause: IndexError leaves terminate
TermGetBash_NoCatch ==
    /\ pc = "t_bash"
    /\ IF get_child_pid(pid, procs) = <<>>
       THEN /\ raised' = "IndexError"
            /\ pc' = "crashed"
            /\ UNCHANGED bash_pid
       ELSE /\ bash_pid' = get_child_pid(pid, procs)[1]
            /\ pc' = "t_main"
            /\ UNCHANGED raised
    /\ UNCHANGED <<osVars, initVars, entry, module_name, mainVars, pid, main_pid,
                   cleanup_pids, ci, loopVars, ghostVars, result, hooks, cmds,
                   listing, msgs>>

\* lines 139-140, 142-143: bash_pid = get_child_pid(pid)[0], IndexError returns False
TermGetBash ==
    /\ pc = "t_bash"
    /\ IF get_child_pid(pid, procs) = <<>>
       THEN /\ result' = "False"
            /\ pc' = "t_return"
            /\ UNCHANGED bash_pid
       ELSE /\ bash_pid' = get_child_pid(pid, procs)[1]
            /\ pc' = "t_main"
            /\ UNCHANGED result
    /\ UNCHANGED <<osVars, initVars, entry, module_name, mainVars, pid, main_pid,
                   cleanup_pids, ci, loopVars, ghostVars, raised, hooks, cmds,
                   listing, msgs>>

\* TermGetMain with the service looked up under the root instead of the shell
TermGetMain_FromRoot ==
    /\ pc = "t_main"
    /\ IF get_child_pid(pid, procs) = <<>>
       THEN /\ result' = "False"
            /\ pc' = "t_return"
            /\ UNCHANGED main_pid
       ELSE /\ main_pid' = get_child_pid(pid, procs)[1]
            /\ pc' = "t_cleanup"
            /\ UNCHANGED result
    /\ UNCHANGED <<osVars, initVars, entry, module_name, mainVars, pid, bash_pid,
                   cleanup_pids, ci, loopVars, ghostVars, raised, hooks, cmds,
                   listing, msgs>>

\* lines 141-143: main_pid = get_child_pid(bash_pid)[0], IndexError returns False
TermGetMain ==
    /\ pc = "t_main"
    /\ IF get_child_pid(bash_pid, procs) = <<>>
       THEN /\ result' = "False"
            /\ pc' = "t_return"
            /\ UNCHANGED main_pid
       ELSE /\ main_pid' = get_child_pid(bash_pid, procs)[1]
            /\ pc' = "t_cleanup"
            /\ UNCHANGED result
    /\ UNCHANGED <<osVars, initVars, entry, module_name, mainVars, pid, bash_pid,
                   cleanup_pids, ci, loopVars, ghostVars, raised, hooks, cmds,
                   listing, msgs>>

\* lines 144-146: the cleanup hook is looked up and called with main_pid (an
\* unknown module name raises KeyError), then terminate_loop(main_pid) is called
TermCleanup ==
    /\ pc = "t_cleanup"
    /\ IF module_name \in DOMAIN Catalog
       THEN /\ cleanup_pids' = Cleanup(Catalog[module_name].cleanup, main_pid, procs)
            /\ hooks' = hooks + 1
            /\ StartLoop(main_pid, "main")
            /\ UNCHANGED raised
       ELSE /\ raised' = "KeyError"
            /\ pc' = "crashed"
            /\ UNCHANGED <<cleanup_pids, hooks, loopVars, ghostVars>>
    /\ UNCHANGED <<osVars, initVars, entry, module_name, mainVars, pid, bash_pid,
                   main_pid, ci, result, cmds, listing, msgs>>

\* TermAfterMain that goes on although the service's ladder failed
TermAfterMain_NoAbort ==
    /\ pc = "t_after_loop"
    /\ role = "main"
    /\ UNCHANGED result
    /\ IF ci < Len(cleanup_pids)
       THEN /\ ci' = ci + 1
            /\ StartLoop(cleanup_pids[ci + 1], "cleanup")
       ELSE /\ UNCHANGED ci
            /\ StartLoop(bash_pid, "bash")
    /\ UNCHANGED <<osVars, initVars, entry, module_name, mainVars, pid, bash_pid,
                   main_pid, cleanup_pids, raised, hooks, cmds, listing, msgs>>

\* lines 146-147 and 149: terminate_loop(main_pid) has returned
TermAfterMain ==
    /\ pc = "t_after_loop"
    /\ role = "main"
    /\ IF loop_ret = "False"
       THEN /\ result' = "False"
            /\ pc' = "t_return"
            /\ UNCHANGED <<ci, loopVars, ghostVars>>
       ELSE /\ UNCHANGED result
            /\ IF ci < Len(cleanup_pids)
               THEN /\ ci' = ci + 1
                    /\ StartLoop(cleanup_pids[ci + 1], "cleanup")
               ELSE /\ UNCHANGED ci
                    /\ StartLoop(bash_pid, "bash")
    /\ UNCHANGED <<osVars, initVars, entry, module_name, mainVars, pid, bash_pid,
                   main_pid, cleanup_pids, raised, hooks, cmds, listing, msgs>>

\* TermAfterCleanup that goes on although the ladder of a cleanup pid failed
TermAfterCleanup_NoAbort ==
    /\ pc = "t_after_loop"
    /\ role = "cleanup"
    /\ UNCHANGED result
    /\ IF ci < Len(cleanup_pids)
       THEN /\ ci' = ci + 1
            /\ StartLoop(cleanup_pids[ci + 1], "cleanup")
       ELSE /\ UNCHANGED ci
            /\ StartLoop(bash_pid, "bash")
    /\ UNCHANGED <<osVars, initVars, entry, module_name, mainVars, pid, bash_pid,
                   main_pid, cleanup_pids, raised, hooks, cmds, listing, msgs>>

\* lines 149-153: terminate_loop(cleanup_pid) has returned
TermAfterCleanup ==
    /\ pc = "t_after_loop"
    /\ role = "cleanup"
    /\ IF loop_ret = "False"
       THEN /\ result' = "False"
            /\ pc' = "t_return"
            /\ UNCHANGED <<ci, loopVars, ghostVars>>
       ELSE /\ UNCHANGED result
            /\ IF ci < Len(cleanup_pids)
               THEN /\ ci' = ci + 1
                    /\ StartLoop(cleanup_pids[ci + 1], "cleanup")
               ELSE /\ UNCHANGED ci
                    /\ StartLoop(bash_pid, "bash")
    /\ UNCHANGED <<osVars, initVars, entry, module_name, mainVars, pid, bash_pid,
                   main_pid, cleanup_pids, raised, hooks, cmds, listing, msgs>>

\* TermAfterBash that goes on although the shell's ladder failed
TermAfterBash_NoAbort ==
    /\ pc = "t_after_loop"
    /\ role = "bash"
    /\ pc' = "t_quit"
    /\ UNCHANGED <<osVars, initVars, entry, module_name, mainVars, termVars, loopVars,
                   ghostVars, result, raised, hooks, cmds, listing, msgs>>

\* lines 153-154: terminate_loop(bash_pid) has returned
TermAfterBash ==
    /\ pc = "t_after_loop"
    /\ role = "bash"
    /\ IF loop_ret = "False"
       THEN /\ result' = "False"
            /\ pc' = "t_return"
       ELSE /\ pc' = "t_quit"
            /\ UNCHANGED result
    /\ UNCHANGED <<osVars, initVars, entry, module_name, mainVars, termVars, loopVars,
                   ghostVars, raised, hooks, cmds, listing, msgs>>

\* line 156: screen -S module_name -X quit.  The exit code is not looked at:
\* the command ends none, some or all of the sessions of that name
TermQuit ==
    /\ pc = "t_quit"
    /\ cmds' = Append(cmds, [cmd |-> "quit", name |-> module_name, call |-> <<>>])
    /\ \E gone \in SUBSET {s \in sessions : s[2] = module_name} :
           sessions' = sessions \ gone
    /\ pc' = "t_check"
    /\ UNCHANGED <<procs, order, initVars, entry, module_name, mainVars, termVars,
                   loopVars, ghostVars, result, raised, hooks, listing, msgs>>

\* TermCheck without the negation: return check_screen_pid(pid)
TermCheck_NoNot ==
    /\ pc = "t_check"
    /\ listing' = sessions
    /\ result' = IF check_screen_pid(pid, sessions, order) THEN "True" ELSE "False"
    /\ pc' = "t_return"
    /\ UNCHANGED <<osVars, initVars, entry, module_name, mainVars, termVars, loopVars,
                   ghostVars, raised, hooks, cmds, msgs>>

\* line 157: return not check_screen_pid(pid)
TermCheck ==
    /\ pc = "t_check"
    /\ listing' = sessions
    /\ result' = IF check_screen_pid(pid, sessions, order) THEN "False" ELSE "True"
    /\ pc' = "t_return"
    /\ UNCHANGED <<osVars, initVars, entry, module_name, mainVars, termVars, loopVars,
                   ghostVars, raised, hooks, cmds, msgs>>

\* terminate has returned to its outside caller
TermDone ==
    /\ pc = "t_return"
    /\ entry = "terminate"
    /\ pc' = "done"
    /\ UNCHANGED <<osVars, initVars, entry, module_name, mainVars, termVars, loopVars,
                   ghostVars, result, raised, hooks, cmds, listing, msgs>>

(***************************************************************************)
(* terminate_loop and wait_killed                                          *)
(***************************************************************************)
\* lines 168 and 172: terminate_attempt(pid, SIGTERM) in the rounds 0..2,
\* terminate_attempt(pid, SIGKILL) after them; then wait_killed starts (line 100)
LoopAttempt ==
    /\ pc = "l_attempt"
    /\ LET a == terminate_attempt(target, RoundSignal(ntry), procs)
       IN  /\ sent' = Append(sent, <<a.signal, a.pid, a.delivered>>)
           /\ IF a.raised = "none"
              THEN /\ maxwait' = RoundMaxWait(ntry)
                   /\ remain' = maxwait'
                   /\ pc' = "l_wait"
                   /\ UNCHANGED raised
              ELSE /\ raised' = a.raised
                   /\ pc' = "crashed"
                   /\ UNCHANGED <<maxwait, remain>>
    /\ wpolls' = 0
    /\ wsleeps' = 0
    /\ UNCHANGED <<osVars, initVars, entry, module_name, mainVars, termVars, target,
                   role, ntry, loop_ret, lpolls, absent, ladders, diedAt, result, hooks,
                   cmds, listing, msgs>>

\* WaitPoll that looks at the process table the run started with
WaitPoll_Snapshot ==
    /\ pc = "l_wait"
    /\ FloatPositive(remain)
    /\ wpolls' = wpolls + 1
    /\ lpolls' = lpolls + 1
    /\ IF ~check_running_pid(target, table0)
       THEN /\ absent' = TRUE
            /\ loop_ret' = "True"
            /\ ladders' = Append(ladders, [pid |-> target, role |-> role, ok |-> TRUE])
            /\ pc' = "t_after_loop"
            /\ UNCHANGED <<remain, wsleeps>>
       ELSE /\ remain' = FloatSub(remain, STEP)
            /\ wsleeps' = wsleeps + 1
            /\ UNCHANGED <<absent, loop_ret, ladders, pc>>
    /\ UNCHANGED <<osVars, initVars, entry, module_name, mainVars, termVars, target,
                   role, ntry, maxwait, sent, diedAt, result, raised, hooks, cmds,
                   listing, msgs>>

\* lines 101-105: one iteration of wait_killed's loop: a poll of a fresh
\* process table; the pid absent returns True (and so does terminate_loop),
\* otherwise the budget is counted down and the step is slept
WaitPoll ==
    /\ pc = "l_wait"
    /\ FloatPositive(remain)
    /\ wpolls' = wpolls + 1
    /\ lpolls' = lpolls + 1
    /\ IF ~check_running_pid(target, procs)
       THEN /\ absent' = TRUE
            /\ loop_ret' = "True"
            /\ ladders' = Append(ladders, [pid |-> target, role |-> role, ok |-> TRUE])
            /\ pc' = "t_after_loop"
            /\ UNCHANGED <<remain, wsleeps>>
       ELSE /\ remain' = FloatSub(remain, STEP)
            /\ wsleeps' = wsleeps + 1
            /\ UNCHANGED <<absent, loop_ret, ladders, pc>>
    /\ UNCHANGED <<osVars, initVars, entry, module_name, mainVars, termVars, target,
                   role, ntry, maxwait, sent, diedAt, result, raised, hooks, cmds,
                   listing, msgs>>

\* line 106 and lines 167-175: the budget is used up, wait_killed returns False:
\* the next round follows, or terminate_loop returns False after the SIGKILL round
WaitTimeout ==
    /\ pc = "l_wait"
    /\ ~FloatPositive(remain)
    /\ IF ntry < 3
       THEN /\ ntry' = ntry + 1
            /\ pc' = "l_attempt"
            /\ UNCHANGED <<loop_ret, ladders>>
       ELSE /\ loop_ret' = "False"
            /\ ladders' = Append(ladders, [pid |-> target, role |-> role, ok |-> FALSE])
            /\ pc' = "t_after_loop"
            /\ UNCHANGED ntry
    /\ UNCHANGED <<osVars, initVars, entry, module_name, mainVars, termVars, target,
                   role, maxwait, remain, sent, wpolls, wsleeps, lpolls, absent, diedAt,
                   result, raised,
                   hooks, cmds, listing, msgs>>

(***************************************************************************)
(* The environment                                                         *)
(***************************************************************************)
\* the program is running
Running == pc \notin {"idle", "done", "crashed"}

\* process p exits: because of a signal or by itself
ProcessExit(p) ==
    /\ Running
    /\ check_running_pid(p, procs)
    /\ procs' = Reap(p, procs)
    /\ diedAt' = IF entry = "wait_killed" /\ p = target THEN wsleeps ELSE diedAt
    /\ UNCHANGED <<sessions, order, initVars, pc, entry, module_name, mainVars,
                   termVars, loopVars, sent, wpolls, wsleeps, lpolls, absent, ladders,
                   result, raised, hooks, cmds, listing, msgs>>

\* a session whose root has no child left ends by itself
SessionExit(s) ==
    /\ Running
    /\ s \in sessions
    /\ int(s[1]) # OtherRootPid
    /\ get_child_pid(int(s[1]), procs) = <<>>
    /\ sessions' = sessions \ {s}
    /\ UNCHANGED <<procs, order, initVars, pc, entry, module_name, mainVars,
                   termVars, loopVars, ghostVars, result, raised, hooks, cmds,
                   listing, msgs>>

\* pids that may occur in the table, sessions that may occur in the listing
Pids == {ShellPid, ServicePid} \cup {ServicePid + k : k \in 1..MaxKids}
            \cup (Block(0) \ {NewRootPid})
Sessions == {str(RootPid), str(OtherRootPid), str(NewRootPid)} \X InputNames

Next ==
    \/ \E name \in InputNames : CallMain(name)
    \/ MainGetPid
    \/ \E a \in Answers : MainInput(a)
    \/ MainAfterTerminate
    \/ MainCall
    \/ \E name \in InputNames : CallTerminate(name)
    \/ TermGetPid
    \/ TermGetBash
    \/ TermGetMain
    \/ TermCleanup
    \/ TermAfterMain
    \/ TermAfterCleanup
    \/ TermAfterBash
    \/ TermQuit
    \/ TermCheck
    \/ TermDone
    \/ LoopAttempt
    \/ WaitPoll
    \/ WaitTimeout
    \/ \E p \in Pids : ProcessExit(p)
    \/ \E s \in Sessions : SessionExit(s)

Spec == Init /\ [][Next]_vars

(***************************************************************************)
(* wait_killed called directly                                             *)
(***************************************************************************)
\* the pids wait_killed is called with: the root, which occurs in the table
\* only as a parent, the shell, the service, a child of the service, and a pid
\* that is in no table
WaitPids == {RootPid, ShellPid, ServicePid, ServicePid + 1, OtherRootPid}

\* the budgets wait_killed is called with, in tenths of a second
Tenths == {20, 5, 10, 3, 0, -1}

\* the double of a budget: the float literals 2.0, 0.5, 1.0, 0.3, 0.0, -0.1
Budget(t) ==
    CASE t = 20 -> MAXWAIT_TERM
      [] t = 5 -> MAXWAIT_KILL
      [] t = 10 -> [hi |-> 134217728, lo |-> 0]
      [] t = 3 -> [hi |-> 40265318, lo |-> 107374182]
      [] t = 0 -> [hi |-> 0, lo |-> 0]
      [] t = -1 -> [hi |-> -13421773, lo |-> 53687091]

\* no session; any process table
InitWait ==
    /\ Init
    /\ sessions = {}

\* wait_killed(p, maxwait=t/10) with the default step, line 100
CallWaitKilled(p, t) ==
    /\ pc = "idle"
    /\ entry' = "wait_killed"
    /\ target' = p
    /\ maxwait' = Budget(t)
    /\ remain' = maxwait'
    /\ pc' = "w_wait"
    /\ UNCHANGED <<osVars, initVars, module_name, mainVars, termVars, role, ntry,
                   loop_ret, ghostVars, result, raised, hooks, cmds, listing, msgs>>

\* WkPoll that looks at the process table read before the loop
WkPoll_Stale ==
    /\ pc = "w_wait"
    /\ FloatPositive(remain)
    /\ wpolls' = wpolls + 1
    /\ IF ~check_running_pid(target, table0)
       THEN /\ absent' = TRUE
            /\ result' = "True"
            /\ pc' = "done"
            /\ UNCHANGED <<remain, wsleeps>>
       ELSE /\ remain' = FloatSub(remain, STEP)
            /\ wsleeps' = wsleeps + 1
            /\ UNCHANGED <<absent, result, pc>>
    /\ UNCHANGED <<osVars, initVars, entry, module_name, mainVars, termVars, target,
                   role, ntry, maxwait, loop_ret, sent, lpolls, ladders, diedAt,
                   raised, hooks, cmds, listing, msgs>>

\* lines 101-105: one iteration of the loop: a poll of a fresh process table,
\* return True if the pid is absent, else count the budget down and sleep
WkPoll ==
    /\ pc = "w_wait"
    /\ FloatPositive(remain)
    /\ wpolls' = wpolls + 1
    /\ IF ~check_running_pid(target, procs)
       THEN /\ absent' = TRUE
            /\ result' = "True"
            /\ pc' = "done"
            /\ UNCHANGED <<remain, wsleeps>>
       ELSE /\ remain' = FloatSub(remain, STEP)
            /\ wsleeps' = wsleeps + 1
            /\ UNCHANGED <<absent, result, pc>>
    /\ UNCHANGED <<osVars, initVars, entry, module_name, mainVars, termVars, target,
                   role, ntry, maxwait, loop_ret, sent, lpolls, ladders, diedAt,
                   raised, hooks, cmds, listing, msgs>>

\* line 106: the budget is not positive, return False
WkTimeout ==
    /\ pc = "w_wait"
    /\ ~FloatPositive(remain)
    /\ result' = "False"
    /\ pc' = "done"
    /\ UNCHANGED <<osVars, initVars, entry, module_name, mainVars, termVars, loopVars,
                   ghostVars, raised, hooks, cmds, listing, msgs>>

NextWait ==
    \/ \E p \in WaitPids, t \in Tenths : CallWaitKilled(p, t)
    \/ WkPoll
    \/ WkTimeout
    \/ \E p \in Pids : ProcessExit(p)

SpecWait == InitWait /\ [][NextWait]_vars

(***************************************************************************)
(* Sequences of calls of main, starting without sessions                   *)
(***************************************************************************)
\* module names given to main in a sequence of calls
SeqNames == {"airflow_webserver", "mongo", "nosuch"}

\* the orders in which a set of root pids may be iterated
Orders(S) == {f \in [1..Cardinality(S) -> S] : \A i, j \in DOMAIN f : i # j => f[i] # f[j]}

\* the processes and the sessions that main may have started
SeqPids == UNION {Block(k) \ {NewRootPid + BlockSize * k} : k \in 0..(MaxCmds + 2)}
SeqSessions == {str(NewRootPid + BlockSize * k) : k \in 0..(MaxCmds + 2)} \X SeqNames

\* no session and no process of a session
InitSeq ==
    /\ Init
    /\ sessions = {}
    /\ procs = <<>>

\* main has returned and the program is run again: a new process with its own
\* hash seed and fresh locals
RunAgain ==
    /\ pc = "done"
    /\ entry = "main"
    /\ Len(cmds) < MaxCmds
    /\ order' \in Orders({int(s[1]) : s \in sessions})
    /\ pc' = "idle"
    /\ entry' = "none"
    /\ module_name' = "none"
    /\ m_pid' = None
    /\ answer' = "none"
    /\ pid' = None
    /\ bash_pid' = None
    /\ main_pid' = None
    /\ cleanup_pids' = <<>>
    /\ ci' = 0
    /\ target' = None
    /\ role' = "none"
    /\ ntry' = 0
    /\ maxwait' = [hi |-> 0, lo |-> 0]
    /\ remain' = [hi |-> 0, lo |-> 0]
    /\ loop_ret' = "none"
    /\ result' = "none"
    /\ sent' = <<>>
    /\ wpolls' = 0
    /\ wsleeps' = 0
    /\ lpolls' = 0
    /\ absent' = FALSE
    /\ ladders' = <<>>
    /\ hooks' = 0
    /\ listing' = {}
    /\ msgs' = <<>>
    /\ UNCHANGED <<procs, sessions, initVars, raised, diedAt, cmds>>

NextSeq ==
    \/ \E name \in SeqNames : CallMain(name)
    \/ MainGetPid
    \/ \E a \in Answers : MainInput(a)
    \/ MainAfterTerminate
    \/ MainCall
    \/ TermGetPid
    \/ TermGetBash
    \/ TermGetMain
    \/ TermCleanup
    \/ TermAfterMain
    \/ TermAfterCleanup
    \/ TermAfterBash
    \/ TermQuit
    \/ TermCheck
    \/ LoopAttempt
    \/ WaitPoll
    \/ WaitTimeout
    \/ \E p \in SeqPids : ProcessExit(p)
    \/ \E s \in SeqSessions : SessionExit(s)
    \/ RunAgain

SpecSeq == InitSeq /\ [][NextSeq]_vars

(***************************************************************************)
(* Properties                                                              *)
(***************************************************************************)
\* terminate_loop is running
InLoop == pc \in {"l_attempt", "l_wait"}

\* a signal has been sent to p: in a finished ladder or in the running one
Signalled(p) ==
    \/ \E i \in 1..Len(ladders) : ladders[i].pid = p
    \/ \E i \in 1..Len(sent) : sent[i][2] = p

\* the finished ladder of p in the given role
LadderOf(p, r) == {i \in 1..Len(ladders) : ladders[i].pid = p /\ ladders[i].role = r}

\* os.system commands of one kind
Commands(kind) == {i \in 1..Len(cmds) : cmds[i].cmd = kind}

\* terminate has been called
TerminateCalled ==
    \/ entry = "terminate"
    \/ entry = "main" /\ lower(answer) \in {"", "y", "yes"}

\* the run of the fabricated table {(1,2), (2,3), (3,4)} with the sessions {"svc": 1}
ScenarioSvc ==
    /\ table0 = <<(<<1, 2>>), (<<2, 3>>), (<<3, 4>>)>>
    /\ sessions0 = {<<str(1), "svc">>}
    /\ module_name = "svc"

\* C1 as stated: with the table {(1,2), (2,3), (3,4)} and the sessions
\* {"svc": 1}, process 3 is signalled only as the shell and after process 4
\* was signalled as the service, and process 2 is signalled only after process 4.
C1_ServiceIs4 ==
    ScenarioSvc =>
        /\ Signalled(3) => (LadderOf(3, "main") = {} /\ LadderOf(4, "main") # {})
        /\ Signalled(2) => Signalled(4)

\* C1 amended: with the table {(1,2), (2,3), (3,4)} and the sessions
\* {"svc": 1}, process 3 is the service and process 2 the shell: only 3 and 2
\* are ever signalled, 3 in the service's ladder, and 2 in the shell's ladder,
\* which starts only after the ladder of 3 has returned true.
C1_ServiceIs3 ==
    ScenarioSvc =>
        /\ \A p \in {1, 4} : ~Signalled(p)
        /\ \A i \in 1..Len(sent) : sent[i][2] \in {2, 3}
        /\ \A i \in 1..Len(ladders) : ladders[i].pid \in {2, 3}
        /\ (InLoop /\ role = "main") => (target = 3 /\ ladders = <<>>)
        /\ (InLoop /\ role = "bash") =>
               (target = 2 /\ ladders = <<[pid |-> 3, role |-> "main", ok |-> TRUE]>>)
        /\ InLoop => role \in {"main", "bash"}
        /\ Signalled(2) => (LadderOf(3, "main") # {} /\ ladders[1].ok)

\* C1 witness: in that run the shell 2 has been signalled after the service 3
C1_Witness ==
    /\ ScenarioSvc
    /\ role = "bash"
    /\ target = 2
    /\ sent # <<>>
    /\ LadderOf(3, "main") # {}

\* the targets of terminate in the order of the code: service, cleanup pids, shell
Targets == <<main_pid>> \o cleanup_pids \o <<bash_pid>>

\* the role of the i-th target
TargetRole(i) == IF i = 1 THEN "main"
                 ELSE IF i <= 1 + Len(cleanup_pids) THEN "cleanup"
                 ELSE "bash"

\* C2: the ladders run on the service, then on the cleanup pids in list order,
\* then on the shell; a signal goes only to the target of the running ladder,
\* and a ladder runs only after the ladder of every earlier target has
\* returned true.
C2_CleanupOrder ==
    hooks > 0 =>
        /\ Len(ladders) <= Len(Targets)
        /\ \A i \in 1..Len(ladders) :
               /\ ladders[i].pid = Targets[i]
               /\ ladders[i].role = TargetRole(i)
               /\ i < Len(ladders) => ladders[i].ok
        /\ \A i \in 1..Len(sent) : sent[i][2] = target
        /\ InLoop =>
               /\ Len(ladders) < Len(Targets)
               /\ target = Targets[Len(ladders) + 1]
               /\ role = TargetRole(Len(ladders) + 1)
               /\ \A i \in 1..Len(ladders) : ladders[i].ok

\* C2 witness: a hook returned two pids and the shell is signalled after the
\* ladders of the service and of both pids
C2_Witness ==
    /\ Len(cleanup_pids) = 2
    /\ role = "bash"
    /\ sent # <<>>
    /\ Len(ladders) = 3

\* number of signals of one kind in the running (or last) ladder
NumSignals(sig) == Cardinality({i \in 1..Len(sent) : sent[i][1] = sig})

\* C3: a ladder sends at most three SIGTERM, each followed by a wait of at most
\* 2.0s (20 steps of 0.1s), then at most one SIGKILL followed by a wait of at
\* most 0.5s (5 steps); SIGKILL follows three SIGTERM rounds whose polls all saw
\* the pid alive, no signal follows a poll that saw the pid absent, and the
\* ladder returns true exactly if a poll after a signal saw the pid absent.
C3_Ladder ==
    /\ NumSignals(SIGTERM) <= 3
    /\ NumSignals(SIGKILL) <= 1
    /\ \A i \in 1..Len(sent) : sent[i][1] = (IF i <= 3 THEN SIGTERM ELSE SIGKILL)
    /\ pc = "l_wait" => wsleeps <= (IF ntry < 3 THEN 20 ELSE 5)
    /\ NumSignals(SIGKILL) > 0 =>
           /\ NumSignals(SIGTERM) = 3
           /\ ntry = 3
           /\ lpolls - wpolls = 60
           /\ absent => wpolls >= 1
    /\ absent => (~InLoop /\ sent # <<>>)
    /\ pc = "t_after_loop" => (loop_ret = "True" <=> absent)

\* C4: when the service survived its ladder, terminate returns false, no quit
\* command was issued, and the session is still listed unless its root has no
\* child left.
C4_AllOrNothing ==
    (ladders # <<>> /\ ladders[1].role = "main" /\ ~ladders[1].ok) =>
        /\ pc \in {"t_after_loop", "t_return", "done"}
        /\ pc # "t_after_loop" => result = "False"
        /\ Len(ladders) = 1
        /\ Commands("quit") = {}
        /\ (<<str(pid), module_name>> \in sessions) \/ (get_child_pid(pid, procs) = <<>>)

\* C4 witness: terminate has returned false after the service survived, and
\* the session is listed
C4_Witness ==
    /\ ladders # <<>>
    /\ ~ladders[1].ok
    /\ pc = "done"
    /\ result = "False"
    /\ <<str(pid), module_name>> \in sessions

\* C5: in every ladder SIGINT is sent before any SIGTERM and SIGTERM before SIGKILL.
C5_IntTermKill ==
    \A i \in 1..Len(sent) :
        /\ sent[i][1] = SIGTERM => \E j \in 1..(i - 1) : sent[j][1] = SIGINT
        /\ sent[i][1] = SIGKILL => \E j \in 1..(i - 1) : sent[j][1] = SIGTERM

\* terminate has issued the quit command and taken the final listing
Checked == Commands("quit") # {} /\ pc # "t_check"

\* C6 as stated: after the quit command terminate returns true exactly if the
\* name is in no entry of the fresh listing.
C6_NameGone ==
    Checked => (result = "True" <=> \A s \in listing : s[2] # module_name)

\* C6 amended: terminate returns true only after the quit command, and exactly
\* if the root pid found at the start is in no entry of the fresh listing; if
\* no other session of the listing carries the name, that is exactly if the
\* name is not listed.
C6_PidGone ==
    /\ result = "True" => Checked
    /\ Checked =>
           /\ result \in {"True", "False"}
           /\ result = "True" <=> \A s \in listing : int(s[1]) # pid
           /\ (\A s \in listing : s[2] = module_name => int(s[1]) = pid) =>
                  (result = "True" <=> \A s \in listing : s[2] # module_name)

\* C6 witness: terminate has returned true although a second session of the
\* name is in the fresh listing
C6_Witness ==
    /\ Checked
    /\ result = "True"
    /\ \E s \in listing : s[2] = module_name /\ int(s[1]) # pid

\* C7: when the name is not listed, the root has no child or the shell has no
\* child, terminate returns false: no signal, no hook, no quit command, no error.
C7_NothingFound ==
    (TerminateCalled /\ pc \notin {"t_get_pid", "t_bash", "t_main"} /\ main_pid = None) =>
        /\ pc \in {"t_return", "done"}
        /\ result = "False"
        /\ raised = "none"
        /\ sent = <<>>
        /\ ladders = <<>>
        /\ hooks = 0
        /\ cmds = <<>>
        /\ cleanup_pids = <<>>

\* C7 witness: the session is listed and has a shell, the shell has no child,
\* and terminate has returned false
C7_Witness ==
    /\ TerminateCalled
    /\ pid # None
    /\ bash_pid # None
    /\ main_pid = None
    /\ result = "False"
    /\ pc = "done"

\* C8: no exception leaves terminate or main, and terminate returns a boolean.
C8_NoCrash ==
    /\ raised = "none"
    /\ pc # "crashed"
    /\ (TerminateCalled /\ pc \in {"t_return", "done", "m_call"}) => result \in {"True", "False"}

\* C9: a ladder on a pid that is already gone raises nothing, sends the first
\* SIGTERM and nothing else, and returns true at its first poll.
C9_AlreadyGone ==
    (sent # <<>> /\ ~sent[1][3]) =>
        /\ raised = "none"
        /\ pc # "crashed"
        /\ sent = <<(<<SIGTERM, target, FALSE>>)>>
        /\ pc = "l_wait" => (lpolls = 0 /\ wsleeps = 0)
        /\ pc # "l_wait" => (loop_ret = "True" /\ lpolls = 1 /\ wsleeps = 0)

\* C9 witness: the ladder of a pid that was gone at its first signal has returned true
C9_Witness ==
    /\ sent # <<>>
    /\ ~sent[1][3]
    /\ loop_ret = "True"
    /\ pc = "t_after_loop"

\* C10: when terminate returned false to main, main writes the failure and
\* returns: no session-creation command, no new session.
C10_NoLaunchAfterFailure ==
    (entry = "main" /\ result = "False") =>
        /\ pc \in {"t_return", "done"}
        /\ Commands("create") = {}
        /\ \A s \in sessions : int(s[1]) # NewRootPid
        /\ pc = "done" => msgs[Len(msgs)] = "terminating failed!"

\* C10 witness: main has returned after a failed teardown of a listed session
C10_Witness ==
    /\ entry = "main"
    /\ result = "False"
    /\ pc = "done"
    /\ m_pid # None

\* sessions of the listing that carry the name
Named(n) == {s \in sessions : s[2] = n}

\* C11: in every sequence of calls of main that starts without sessions, no
\* name is carried by more than one listed session.
C11_OnePerName == \A n \in SeqNames : Cardinality(Named(n)) <= 1

\* C11 witness: a session has been torn down and created again, and one
\* session carries the name
C11_Witness ==
    \E n \in SeqNames :
        /\ Cardinality({i \in Commands("create") : cmds[i].name = n}) = 2
        /\ Cardinality({i \in Commands("quit") : cmds[i].name = n}) = 1
        /\ Cardinality(Named(n)) = 1

\* no session of the listing the run started with carries the requested name
AbsentAtCall == \A s \in sessions0 : s[2] # module_name

\* C12: when main is called for a known module of which the listing holds no
\* session, main does not prompt, does not call terminate, sends no signal,
\* issues no quit command, and has issued exactly one session-creation command
\* when it returns.
C12_LaunchWhenAbsent ==
    (entry = "main" /\ module_name \in DOMAIN Catalog /\ AbsentAtCall) =>
        /\ pc \in {"m_get_pid", "m_call", "done"}
        /\ m_pid = None
        /\ answer = "none"
        /\ \A i \in 1..Len(msgs) : msgs[i] # "already active"
        /\ result = "none"
        /\ hooks = 0
        /\ sent = <<>>
        /\ ladders = <<>>
        /\ Commands("quit") = {}
        /\ Cardinality(Commands("create")) = (IF pc = "done" THEN 1 ELSE 0)

\* C12 witness: main has launched a known module while only sessions of another
\* name were listed
C12_Witness ==
    /\ entry = "main"
    /\ module_name \in DOMAIN Catalog
    /\ AbsentAtCall
    /\ sessions0 # {}
    /\ pc = "done"
    /\ Cardinality(Commands("create")) = 1

\* the prompt was answered with something else than '', 'y' or 'yes'
Declined == entry = "main" /\ answer # "none" /\ lower(answer) \notin {"", "y", "yes"}

\* C18: after an answer to the prompt other than '', 'y', 'yes' in any case,
\* main has returned without calling terminate or a cleanup hook, without a
\* signal and without a quit or session-creation command.
C18_DeclinedNoEffect ==
    Declined =>
        /\ m_pid # None
        /\ pc = "done"
        /\ result = "none"
        /\ pid = None
        /\ hooks = 0
        /\ sent = <<>>
        /\ ladders = <<>>
        /\ cmds = <<>>

\* C18 witness: the prompt was answered "NO" and the session of the name is
\* still listed with its processes
C18_Witness ==
    /\ Declined
    /\ answer = "NO"
    /\ pc = "done"
    /\ \E s \in sessions : s[2] = module_name /\ int(s[1]) = m_pid
    /\ check_running_pid(ShellPid, procs)
    /\ check_running_pid(ServicePid, procs)

\* the finished ladders that returned false
FailedLadders == {i \in 1..Len(ladders) : ~ladders[i].ok}

\* C15: a ladder that returned false is the last thing terminate does: no
\* ladder runs after it, terminate returns false, no quit and no
\* session-creation command is issued; a ladder runs only while every finished
\* ladder returned true, and the quit command is issued only after the ladders
\* of all targets returned true.
C15_AbortAtFirstFailure ==
    /\ \A i \in FailedLadders :
           /\ i = Len(ladders)
           /\ ~InLoop
           /\ pc \in {"t_after_loop", "t_return", "done"}
           /\ pc # "t_after_loop" => result = "False"
           /\ \A j \in 1..Len(sent) : sent[j][2] = ladders[i].pid
           /\ cmds = <<>>
    /\ InLoop => FailedLadders = {}
    /\ Commands("quit") # {} =>
           /\ FailedLadders = {}
           /\ Len(ladders) = Len(Targets)

\* C15 witness: the ladders of the service and of the first cleanup pid returned
\* true, the ladder of the second cleanup pid returned false, and terminate has
\* returned false without a signal to the shell
C15_Witness ==
    /\ Len(cleanup_pids) = 2
    /\ Len(ladders) = 3
    /\ ladders[2].ok
    /\ ~ladders[3].ok
    /\ ladders[3].pid = cleanup_pids[2]
    /\ ~Signalled(bash_pid)
    /\ result = "False"
    /\ pc = "done"

\* a signal of the running (or last) ladder found its target gone
GoneAtSignal == \E i \in 1..Len(sent) : ~sent[i][3]

\* C19: a target that has gone by itself when a signal is sent to it raises no
\* error; that signal is the last of its ladder, the first poll after it sees
\* the pid absent and the ladder returns true; every ladder in which a poll saw
\* the pid absent returns true; and terminate returns true whenever the name is
\* in no entry of the listing at the final check.
C19_ToleratesExit ==
    /\ GoneAtSignal =>
           /\ raised = "none"
           /\ \A i \in 1..Len(sent) : sent[i][3] <=> i < Len(sent)
           /\ \/ pc = "l_wait" /\ wpolls = 0
              \/ /\ ~InLoop
                 /\ wpolls = 1
                 /\ absent
    /\ absent =>
           /\ ~InLoop
           /\ ladders # <<>>
           /\ ladders[Len(ladders)] = [pid |-> target, role |-> role, ok |-> TRUE]
    /\ (Checked /\ \A s \in listing : s[2] # module_name) => result = "True"

\* C19 witness: the shell had gone by itself when it was signalled, its ladder
\* returned true, the session had ended, and terminate returned true
C19_Witness ==
    /\ role = "bash"
    /\ Len(sent) = 1
    /\ GoneAtSignal
    /\ ladders[Len(ladders)].ok
    /\ Checked
    /\ \A s \in listing : s[2] # module_name
    /\ result = "True"

\* the pids terminate may signal: service, pids of the cleanup hook, shell
Allowed == {main_pid} \cup Range(cleanup_pids) \cup {bash_pid}

\* C20: every signal of terminate goes to the service pid, to a pid the cleanup
\* hook returned or to the shell pid, never to the root pid of the session; the
\* quit command is issued at most once, and only after the shell's ladder, the
\* last one, returned true.
C20_OnlyTargetsSignalled ==
    /\ \A i \in 1..Len(sent) : sent[i][2] \in Allowed /\ sent[i][2] # pid
    /\ \A i \in 1..Len(ladders) : ladders[i].pid \in Allowed /\ ladders[i].pid # pid
    /\ ~Signalled(RootPid)
    /\ ~Signalled(OtherRootPid)
    /\ Cardinality(Commands("quit")) <= 1
    /\ Commands("quit") # {} =>
           /\ ladders # <<>>
           /\ ladders[Len(ladders)] = [pid |-> bash_pid, role |-> "bash", ok |-> TRUE]
           /\ \A i \in 1..Len(sent) : sent[i][2] = bash_pid

\* C20 witness: service, a cleanup pid and the shell were signalled, the quit
\* command was issued and the session of the root pid has left the listing
C20_Witness ==
    /\ pid = RootPid
    /\ Len(ladders) = 3
    /\ Signalled(ShellPid)
    /\ Signalled(ServicePid)
    /\ Cardinality(Commands("quit")) = 1
    /\ pc = "done"
    /\ \A s \in sessions : int(s[1]) # RootPid

\* C17 as stated: a ladder sends at most 4 signals and polls at most
\* 3*20+5 = 65 times.
C17_BoundedLadder ==
    /\ Len(sent) <= 4
    /\ lpolls <= 65

\* the budget of the call in tenths of a second
TenthsOf(mw) == CHOOSE t \in Tenths : Budget(t) = mw

\* wait_killed has returned
WaitReturned == entry = "wait_killed" /\ pc = "done"

\* the child ids of a table
ChildIds(table) == {table[i][2] : i \in 1..Len(table)}

\* C13: check_running_pid is false for every table and every pid that is not a
\* child id of the table, and wait_killed called with such a pid and a positive
\* maxwait returns true at its first poll, without a sleep.
C13_AbsentPid ==
    /\ \A t \in InitTables : \A p \in WaitPids :
           p \notin ChildIds(t) => ~check_running_pid(p, t)
    /\ (entry = "wait_killed" /\ target \notin ChildIds(table0)) =>
           /\ wsleeps = 0
           /\ diedAt = None
           /\ (pc = "done" /\ TenthsOf(maxwait) > 0) =>
                  /\ result = "True"
                  /\ wpolls = 1

\* C13 witness: wait_killed was called for the root, which the table holds only
\* as a parent, and returned true at the first poll
C13_Witness ==
    /\ WaitReturned
    /\ target = RootPid
    /\ \E i \in 1..Len(table0) : table0[i][1] = RootPid
    /\ TenthsOf(maxwait) = 3
    /\ result = "True"
    /\ wpolls = 1
    /\ wsleeps = 0

\* the number of polls wait_killed makes while the pid stays in the table
RECURSIVE PollCount(_)
PollCount(r) == IF FloatPositive(r) THEN 1 + PollCount(FloatSub(r, STEP)) ELSE 0

\* C14: with one poll per step, a process that exits during the k-th sleep,
\* before the last poll, makes wait_killed return true at poll k+1, the first
\* poll after the exit; with maxwait 2.0 an exit at 0.35s, in the 4th sleep,
\* gives true after at least 4 polls.
C14_FreshPoll ==
    (WaitReturned /\ diedAt # None) =>
        /\ diedAt < PollCount(maxwait) =>
               /\ result = "True"
               /\ wpolls = diedAt + 1
        /\ (TenthsOf(maxwait) = 20 /\ diedAt = 4) =>
               /\ result = "True"
               /\ wpolls >= 4

\* C14 witness: maxwait 2.0, the process exited during the 4th sleep and the
\* 5th poll returned true
C14_Witness ==
    /\ WaitReturned
    /\ TenthsOf(maxwait) = 20
    /\ diedAt = 4
    /\ result = "True"
    /\ wpolls = 5

\* C16 as stated: wait_killed returns false after exactly maxwait/step polls
\* (20 for 2.0, 5 for 0.5), none for maxwait <= 0, also when the process exits
\* during the final sleep.
C16_ExactPolls ==
    (WaitReturned /\ result = "False") =>
        wpolls = (IF TenthsOf(maxwait) > 0 THEN TenthsOf(maxwait) ELSE 0)

====
